---- MODULE Spec2Model ----
(***************************************************************************)
(* Model of cmd/http_server/main.go (the last snapshot of the file, lines  *)
(* 319-611): the SQLite tables orders, priority_changes and polling_state, *)
(* the /orders and /orders/priority handlers, and the polling goroutine    *)
(* pollForPriorityChanges.                                                 *)
(*                                                                         *)
(* The storage engine is modelled by its transaction contract: a           *)
(* transaction's writes are private until COMMIT and are applied together  *)
(* or not at all; at most one transaction holds the write lock; a          *)
(* transaction reads the snapshot taken by its first read (plus its own    *)
(* writes) and cannot write once that snapshot is out of date.  Any        *)
(* statement may fail (I/O error, lock timeout); the number of such        *)
(* failures in a behaviour is bounded: MaxFailures under Spec, one more    *)
(* under RecoverySpec.                                                     *)
(***************************************************************************)
EXTENDS Integers, Sequences, FiniteSets, TLC

\* ---------------------------------------------------------------- bounds
MaxOrders == 1
MaxEvents == 2
MaxFailures == 1

\* ------------------------------------------------------------- constants
Products == {"ninja", "widget"}
Priorities == {"normal", "high"}

\* Transaction identities: the poller's transaction and a request handler's.
\* The write lock lets one handler transaction at a time write and commit, and
\* db.Begin() touches no table, so requests on /orders/priority reach the
\* database one after the other: one handler stands for all of them.
NoTx == 0 - 1
PollerTx == 0
NoWrite == 0 - 1
Handlers == {1}

\* Values the "id" form field of PATCH /orders/priority can take: the ids of
\* the rows the orders table may hold, inserted yet or not, and one id that
\* no row ever has.
OrderIds == 1 .. (MaxOrders + 1)

VARIABLES
    orders,       \* table orders: row id = index, [product_name, priority]
    events,       \* table priority_changes: row id = index, [order_id, processed]
    watermark,    \* polling_state.last_processed_id of the row id = 1
    foreignKeys,  \* whether the connection enforces FOREIGN KEY clauses
    wlock,        \* transaction holding the database write lock, or NoTx
    ppc,          \* poller: position in the loop body
    lastID,       \* poller: local lastID
    maxID,        \* poller: local maxID
    rows,         \* poller: result rows not yet iterated (event ids)
    marked,       \* poller: ids updated to processed = TRUE in the open tx
    wmNew,        \* poller: last_processed_id written in the open tx, or NoWrite
    snapOrders,   \* poller: orders as of the transaction's read snapshot
    snapEvents,   \* poller: priority_changes as of the read snapshot
    stepFailed,   \* poller: some statement of the current cycle failed
    skipped,      \* poller: ids of the rows skipped after a failed Scan or UPDATE
    leakedTxs,    \* poller transactions left open by an earlier iteration
    hpc,          \* handler: position in the /orders/priority handler
    harg,         \* handler: the order id of the request in flight
    hres,         \* handler: the response of the last request
    markCommits,  \* per event id: committed cycles that set its processed flag
    failures,     \* failed statements and crashes the behaviour may still have
    retry,        \* ids marked by a cycle whose Commit failed, until a cycle
                  \* commits with no failed step
    shutdown      \* a shutdown of the poller has been requested

vars == <<orders, events, watermark, foreignKeys, wlock, ppc, lastID, maxID,
          rows, marked, wmNew, snapOrders, snapEvents, stepFailed, leakedTxs,
          skipped, hpc, harg, hres, markCommits, failures, retry, shutdown>>

dbVars == <<orders, events, watermark, markCommits>>
pollerVars == <<ppc, lastID, maxID, rows, marked, wmNew, snapOrders,
                snapEvents, stepFailed, skipped, leakedTxs>>
auxVars == <<retry, shutdown>>
handlerVars == <<hpc, harg, hres>>

\* ------------------------------------------------------------ operators

\* INSERT INTO orders (...) VALUES (...)
NewOrder(product, priority) ==
    [product_name |-> product, priority |-> priority]

\* Mutant of NewEvent: the row is inserted already processed.
NewEventProcessed(orderID) ==
    [order_id |-> orderID, processed |-> TRUE]

\* INSERT INTO priority_changes (order_id, priority) VALUES (?, 'high');
\* processed takes the column's DEFAULT FALSE.
NewEvent(orderID) ==
    [order_id |-> orderID, processed |-> FALSE]

\* Mutant of InsertEvent: no second row for an order that already has one.
InsertEventOnce(evs, orderID) ==
    IF \E i \in 1 .. Len(evs) : evs[i].order_id = orderID
    THEN evs
    ELSE Append(evs, NewEvent(orderID))

\* The INSERT takes the next AUTOINCREMENT id: the row goes after every
\* committed row (the write lock admits one inserting transaction at a time).
InsertEvent(evs, orderID) == Append(evs, NewEvent(orderID))

\* UPDATE orders SET priority = 'high' WHERE id = ?
SetHigh(ords, orderID) ==
    [i \in 1 .. Len(ords) |->
        IF i = orderID THEN [ords[i] EXCEPT !.priority = "high"] ELSE ords[i]]

\* Mutant of Matches: the join without the product filter.
MatchesAnyProduct(ords, e) ==
    e.order_id \in 1 .. Len(ords)

\* JOIN orders o ON pc.order_id = o.id WHERE o.product_name = 'ninja'
Matches(ords, e) ==
    /\ e.order_id \in 1 .. Len(ords)
    /\ ords[e.order_id].product_name = "ninja"

\* Mutant of SelectedIds: the SELECT without AND pc.processed = FALSE.
SelectedIdsIgnoringProcessed(ords, evs, last) ==
    {i \in 1 .. Len(evs) : Matches(ords, evs[i]) /\ i > last}

\* The WHERE clause of the poller's SELECT.
SelectedIds(ords, evs, last) ==
    {i \in 1 .. Len(evs) :
        /\ Matches(ords, evs[i])
        /\ i > last
        /\ evs[i].processed = FALSE}

Min(S) == CHOOSE x \in S : \A y \in S : x <= y

Max(S) == CHOOSE x \in S : \A y \in S : x >= y

\* Mutant of Ascending: ORDER BY pc.id DESC.
RECURSIVE Descending(_)
Descending(S) ==
    IF S = {} THEN <<>> ELSE <<Max(S)>> \o Descending(S \ {Max(S)})

\* ORDER BY pc.id ASC
RECURSIVE Ascending(_)
Ascending(S) ==
    IF S = {} THEN <<>> ELSE <<Min(S)>> \o Ascending(S \ {Min(S)})

\* Mutant of ShouldAdvance: the watermark is written by every cycle.
AlwaysAdvance(mx, last) == TRUE

\* if maxID > lastID
ShouldAdvance(mx, last) == mx > last

\* Mutant of MarkProcessed: the consumed rows are deleted instead of flagged.
DeleteProcessed(evs, ids) ==
    LET keep == Ascending({i \in 1 .. Len(evs) : i \notin ids})
    IN  [k \in 1 .. Len(keep) |-> evs[keep[k]]]

\* UPDATE priority_changes SET processed = TRUE WHERE id = ?, for each id of ids
MarkProcessed(evs, ids) ==
    [i \in 1 .. Len(evs) |->
        IF i \in ids THEN [evs[i] EXCEPT !.processed = TRUE] ELSE evs[i]]

\* The poller's snapshot is the committed database.
Fresh == snapOrders = orders /\ snapEvents = events

\* ------------------------------------------------------------------ init

\* The state after initDB on an empty database file and the start of the
\* poller goroutine; budget is the number of failures the behaviour may have.
Boot(budget) ==
    /\ orders = <<>>
    /\ events = <<>>
    /\ watermark = 0
    /\ foreignKeys \in BOOLEAN
    /\ wlock = NoTx
    /\ ppc = "begin"
    /\ lastID = 0
    /\ maxID = 0
    /\ rows = <<>>
    /\ marked = {}
    /\ wmNew = NoWrite
    /\ snapOrders = <<>>
    /\ snapEvents = <<>>
    /\ stepFailed = FALSE
    /\ leakedTxs = 0
    /\ hpc = [h \in Handlers |-> "idle"]
    /\ harg = [h \in Handlers |-> 1]
    /\ hres = [h \in Handlers |-> "none"]
    /\ markCommits = <<>>
    /\ failures = budget
    /\ skipped = {}
    /\ retry = {}
    /\ shutdown = FALSE

Init == Boot(MaxFailures)

\* A statement fails: allowed while the failure budget lasts.
Fail == failures > 0 /\ failures' = failures - 1

\* Transaction t can take (or already holds) the write lock.
CanWrite(t) == wlock \in {NoTx, t}

\* The locals of the loop body are declared anew by every iteration.
ResetLocals ==
    /\ lastID' = 0
    /\ maxID' = 0
    /\ rows' = <<>>
    /\ marked' = {}
    /\ wmNew' = NoWrite
    /\ snapOrders' = <<>>
    /\ snapEvents' = <<>>
    /\ stepFailed' = FALSE
    /\ skipped' = {}

\* COMMIT or ROLLBACK of transaction t releases its write lock.
Release(t) == wlock' = IF wlock = t THEN NoTx ELSE wlock

\* ---------------------------------------------------------------- poller

\* tx, err := db.Begin()
PollBegin ==
    /\ ppc = "begin"
    /\ ppc' = "readWM"
    /\ UNCHANGED <<auxVars, dbVars, foreignKeys, wlock, lastID, maxID, rows, marked,
                   wmNew, snapOrders, snapEvents, stepFailed, skipped, leakedTxs,
                   handlerVars, failures>>

\* db.Begin() fails: log, sleep, continue.
PollBeginFail ==
    /\ ppc = "begin"
    /\ Fail
    /\ UNCHANGED <<auxVars, dbVars, foreignKeys, wlock, pollerVars, handlerVars>>

\* SELECT last_processed_id FROM polling_state WHERE id = 1
PollReadWatermark ==
    /\ ppc = "readWM"
    /\ lastID' = watermark
    /\ snapOrders' = orders
    /\ snapEvents' = events
    /\ ppc' = "query"
    /\ UNCHANGED <<auxVars, dbVars, foreignKeys, wlock, maxID, rows, marked, wmNew,
                   stepFailed, skipped, leakedTxs, handlerVars, failures>>

\* The read fails: log, sleep, continue.  The deferred tx.Rollback() runs only
\* when the function returns, which it never does: the transaction stays open.
PollReadWatermarkFail ==
    /\ ppc = "readWM"
    /\ Fail
    /\ leakedTxs' = leakedTxs + 1
    /\ ResetLocals
    /\ ppc' = "begin"
    /\ UNCHANGED <<auxVars, dbVars, foreignKeys, wlock, handlerVars>>

\* rows, err := tx.Query(SELECT ... ORDER BY pc.id ASC, lastID)
PollQuery ==
    /\ ppc = "query"
    /\ rows' = Ascending(SelectedIds(snapOrders, snapEvents, lastID))
    /\ ppc' = IF rows' = <<>> THEN "updateWM" ELSE "rows"
    /\ UNCHANGED <<auxVars, dbVars, foreignKeys, wlock, lastID, maxID, marked, wmNew,
                   snapOrders, snapEvents, stepFailed, skipped, leakedTxs, handlerVars,
                   failures>>

\* The query fails: log, sleep, continue; the transaction stays open.
PollQueryFail ==
    /\ ppc = "query"
    /\ Fail
    /\ leakedTxs' = leakedTxs + 1
    /\ ResetLocals
    /\ ppc' = "begin"
    /\ UNCHANGED <<auxVars, dbVars, foreignKeys, wlock, handlerVars>>

\* Leaving the body of for rows.Next(): the next row, or rows.Close().
NextRow ==
    /\ rows' = Tail(rows)
    /\ ppc' = IF Tail(rows) = <<>> THEN "updateWM" ELSE "rows"

\* rows.Scan succeeds, UPDATE priority_changes SET processed = TRUE succeeds,
\* maxID = id.
PollMarkRow ==
    /\ ppc = "rows"
    /\ CanWrite(PollerTx)
    /\ Fresh
    /\ wlock' = PollerTx
    /\ marked' = marked \cup {Head(rows)}
    /\ maxID' = Head(rows)
    /\ NextRow
    /\ UNCHANGED <<auxVars, dbVars, foreignKeys, lastID, wmNew, snapOrders, snapEvents,
                   stepFailed, skipped, leakedTxs, handlerVars, failures>>

\* rows.Scan fails: log, continue with the next row.
PollScanFail ==
    /\ ppc = "rows"
    /\ Fail
    /\ stepFailed' = TRUE
    /\ skipped' = skipped \cup {Head(rows)}
    /\ NextRow
    /\ UNCHANGED <<auxVars, dbVars, foreignKeys, wlock, lastID, maxID, marked, wmNew,
                   snapOrders, snapEvents, leakedTxs, handlerVars>>

\* The UPDATE of the row fails (an injected failure, or at once because the
\* snapshot is out of date): log, continue with the next row.
PollMarkFail ==
    /\ ppc = "rows"
    /\ IF Fresh THEN Fail ELSE UNCHANGED failures
    /\ stepFailed' = TRUE
    /\ skipped' = skipped \cup {Head(rows)}
    /\ NextRow
    /\ UNCHANGED <<auxVars, dbVars, foreignKeys, wlock, lastID, maxID, marked, wmNew,
                   snapOrders, snapEvents, leakedTxs, handlerVars>>

\* if maxID > lastID { UPDATE polling_state SET last_processed_id = maxID }
PollUpdateWatermark ==
    /\ ppc = "updateWM"
    /\ IF ShouldAdvance(maxID, lastID)
       THEN /\ CanWrite(PollerTx)
            /\ Fresh
            /\ wlock' = PollerTx
            /\ wmNew' = maxID
       ELSE UNCHANGED <<wlock, wmNew>>
    /\ ppc' = "commit"
    /\ UNCHANGED <<auxVars, dbVars, foreignKeys, lastID, maxID, rows, marked,
                   snapOrders, snapEvents, stepFailed, skipped, leakedTxs, handlerVars,
                   failures>>

\* The UPDATE of polling_state fails: log only, the loop goes on to Commit.
PollUpdateWatermarkFail ==
    /\ ppc = "updateWM"
    /\ ShouldAdvance(maxID, lastID)
    /\ IF Fresh THEN Fail ELSE UNCHANGED failures
    /\ stepFailed' = TRUE
    /\ ppc' = "commit"
    /\ UNCHANGED <<auxVars, dbVars, foreignKeys, wlock, lastID, maxID, rows,
                   marked, wmNew, snapOrders, snapEvents, skipped, leakedTxs,
                   handlerVars>>

\* tx.Commit() succeeds: the transaction's writes become the committed state.
PollCommit ==
    /\ ppc = "commit"
    /\ events' = MarkProcessed(events, marked)
    /\ watermark' = IF wmNew # NoWrite THEN wmNew ELSE watermark
    /\ markCommits' = [i \in 1 .. Len(markCommits) |->
                          IF i \in marked THEN markCommits[i] + 1
                                          ELSE markCommits[i]]
    /\ Release(PollerTx)
    /\ ResetLocals
    /\ ppc' = "begin"
    /\ retry' = IF stepFailed THEN retry ELSE {}
    /\ UNCHANGED <<orders, foreignKeys, leakedTxs, handlerVars, failures,
                   shutdown>>

\* tx.Commit() fails: the driver rolls the transaction back; log, sleep.
PollCommitFail ==
    /\ ppc = "commit"
    /\ Fail
    /\ Release(PollerTx)
    /\ ResetLocals
    /\ ppc' = "begin"
    /\ retry' = retry \cup marked
    /\ UNCHANGED <<dbVars, foreignKeys, leakedTxs, handlerVars, shutdown>>

PollerNext ==
    \/ PollBegin
    \/ PollBeginFail
    \/ PollReadWatermark
    \/ PollReadWatermarkFail
    \/ PollQuery
    \/ PollQueryFail
    \/ PollMarkRow
    \/ PollScanFail
    \/ PollMarkFail
    \/ PollUpdateWatermark
    \/ PollUpdateWatermarkFail
    \/ PollCommit
    \/ PollCommitFail

\* --------------------------------------------------------------- ingress

\* POST /orders: one INSERT INTO orders, committed on its own.
CreateOrder(product, priority) ==
    /\ ppc # "down"
    /\ Len(orders) < MaxOrders
    /\ CanWrite(NoTx)
    /\ orders' = Append(orders, NewOrder(product, priority))
    /\ UNCHANGED <<auxVars, events, watermark, markCommits, foreignKeys, wlock,
                   pollerVars, handlerVars, failures>>

\* Requests in flight on /orders/priority.
InFlight == {h \in Handlers : hpc[h] # "idle"}

\* PATCH /orders/priority with id = orderID: tx, err := db.Begin()
EscBegin(h, orderID) ==
    /\ ppc # "down"
    /\ hpc[h] = "idle"
    /\ Len(events) + Cardinality(InFlight) < MaxEvents
    /\ hpc' = [hpc EXCEPT ![h] = "update"]
    /\ harg' = [harg EXCEPT ![h] = orderID]
    /\ hres' = [hres EXCEPT ![h] = "none"]
    /\ UNCHANGED <<auxVars, dbVars, foreignKeys, wlock, pollerVars, failures>>

\* A statement of the handler fails: http.Error, return; the deferred
\* tx.Rollback() discards the transaction's writes.
EscFail(h) ==
    /\ hpc[h] \in {"update", "insert", "commit"}
    /\ Fail
    /\ Release(h)
    /\ hpc' = [hpc EXCEPT ![h] = "idle"]
    /\ hres' = [hres EXCEPT ![h] = "error"]
    /\ harg' = [harg EXCEPT ![h] = 1]
    /\ UNCHANGED <<auxVars, dbVars, foreignKeys, pollerVars>>

\* UPDATE orders SET priority = 'high' WHERE id = ?  (no row matched is no error)
EscUpdate(h) ==
    /\ hpc[h] = "update"
    /\ CanWrite(h)
    /\ wlock' = h
    /\ hpc' = [hpc EXCEPT ![h] = "insert"]
    /\ UNCHANGED <<auxVars, dbVars, foreignKeys, harg, hres, pollerVars, failures>>

\* The FOREIGN KEY(order_id) REFERENCES orders(id) clause rejects the row.
ForeignKeyViolation(ords, orderID) ==
    foreignKeys /\ orderID \notin 1 .. Len(ords)

\* INSERT INTO priority_changes (order_id, priority) VALUES (?, 'high')
EscInsert(h) ==
    /\ hpc[h] = "insert"
    /\ ~ForeignKeyViolation(orders, harg[h])
    /\ hpc' = [hpc EXCEPT ![h] = "commit"]
    /\ UNCHANGED <<auxVars, dbVars, foreignKeys, wlock, harg, hres, pollerVars, failures>>

\* The INSERT violates the foreign key: http.Error, return, rollback.
EscInsertRejected(h) ==
    /\ hpc[h] = "insert"
    /\ ForeignKeyViolation(orders, harg[h])
    /\ Release(h)
    /\ hpc' = [hpc EXCEPT ![h] = "idle"]
    /\ hres' = [hres EXCEPT ![h] = "error"]
    /\ harg' = [harg EXCEPT ![h] = 1]
    /\ UNCHANGED <<auxVars, dbVars, foreignKeys, pollerVars, failures>>

\* tx.Commit() succeeds: the order update and the event row are committed
\* together; w.WriteHeader(http.StatusOK).
EscCommit(h) ==
    /\ hpc[h] = "commit"
    /\ orders' = SetHigh(orders, harg[h])
    /\ events' = InsertEvent(events, harg[h])
    /\ markCommits' = Append(markCommits, 0)
    /\ Release(h)
    /\ hpc' = [hpc EXCEPT ![h] = "idle"]
    /\ hres' = [hres EXCEPT ![h] = "ok"]
    /\ harg' = [harg EXCEPT ![h] = 1]
    /\ UNCHANGED <<auxVars, watermark, foreignKeys, pollerVars, failures>>

HandlerStep ==
    \E h \in Handlers :
        \/ EscFail(h)
        \/ EscUpdate(h)
        \/ EscInsert(h)
        \/ EscInsertRejected(h)
        \/ EscCommit(h)

IngressNext ==
    \/ \E product \in Products, priority \in Priorities :
           CreateOrder(product, priority)
    \/ \E h \in Handlers, orderID \in OrderIds : EscBegin(h, orderID)
    \/ HandlerStep

\* --------------------------------------------------------------- process

\* The process dies (a kill, a power cut; counted as a failure): goroutines,
\* locals and connections are gone and the engine discards every transaction
\* that was open; the committed tables stay.  A request in flight gets no
\* answer, which its caller sees as an error.
Crash ==
    /\ ppc # "down"
    /\ Fail
    /\ ppc' = "down"
    /\ ResetLocals
    /\ leakedTxs' = 0
    /\ wlock' = NoTx
    /\ hpc' = [h \in Handlers |-> "idle"]
    /\ harg' = [h \in Handlers |-> 1]
    /\ hres' = [h \in Handlers |-> IF hpc[h] # "idle" THEN "error" ELSE hres[h]]
    /\ UNCHANGED <<auxVars, dbVars, foreignKeys>>

\* Mutant of InsertOrIgnore: INSERT OR REPLACE.
InsertOrReplace(row, value) == value

\* INSERT OR IGNORE INTO polling_state (id, last_processed_id) VALUES (1, 0):
\* row is the last_processed_id of the row id = 1, or NoWrite without that row.
InsertOrIgnore(row, value) == IF row = NoWrite THEN value ELSE row

\* main on a restart: initDB (CREATE TABLE IF NOT EXISTS leaves existing
\* tables alone), then go pollForPriorityChanges(db) and ListenAndServe.
InitDB ==
    /\ ppc = "down"
    /\ watermark' = InsertOrIgnore(watermark, 0)
    /\ ppc' = "begin"
    /\ UNCHANGED <<auxVars, orders, events, markCommits, foreignKeys, wlock,
                   lastID, maxID, rows, marked, wmNew, snapOrders, snapEvents,
                   stepFailed, skipped, leakedTxs, handlerVars, failures>>

ProcessNext == Crash \/ InitDB

Next == PollerNext \/ IngressNext \/ ProcessNext

Spec == Init /\ [][Next]_vars

\* The program with one more failure: a failed Commit followed by another
\* failed statement.
RecoverySpec == Boot(MaxFailures + 1) /\ [][Next]_vars

\* The poller goroutine and every request handler keep running, and a process
\* that died is started again.
FairSpec ==
    Spec /\ WF_vars(PollerNext) /\ WF_vars(HandlerStep) /\ WF_vars(InitDB)

\* A shutdown is requested (a signal, a cancelled context).  The program has
\* no handler for it: pollForPriorityChanges takes no context or stop channel
\* and its for loop has no exit, so no action reads the request.
RequestShutdown ==
    /\ ~shutdown
    /\ shutdown' = TRUE
    /\ UNCHANGED <<retry, dbVars, foreignKeys, wlock, pollerVars, handlerVars,
                   failures>>

\* The program with a shutdown request that may arrive at any time.
ShutdownSpec ==
    /\ Init
    /\ [][Next \/ RequestShutdown]_vars
    /\ WF_vars(PollerNext) /\ WF_vars(HandlerStep) /\ WF_vars(InitDB)

\* ================================================================ claims

\* Row i of priority_changes refers to an existing order whose product is ninja.
RefersToNinja(i) ==
    /\ events[i].order_id \in 1 .. Len(orders)
    /\ orders[events[i].order_id].product_name = "ninja"

EventIds == 1 .. Len(events)

\* C1: in every committed state, every event with id <= watermark whose order
\* satisfies the filter has processed = TRUE.
C1_WatermarkCoversMatching ==
    \A i \in EventIds :
        (i <= watermark /\ RefersToNinja(i)) => events[i].processed

\* C2: under fair scheduling and with finitely many storage failures, every
\* committed event whose order matches the filter is eventually processed.
C2_NoSkip ==
    \A i \in 1 .. MaxEvents :
        (i \in EventIds /\ RefersToNinja(i))
            ~> (i \in EventIds /\ events[i].processed)

\* C3: every event is marked processed by at most one committed cycle, and a
\* cycle never selects or updates an event that is already processed or that
\* the watermark has passed.
C3_ExactlyOnce ==
    /\ \A i \in EventIds :
           markCommits[i] = IF events[i].processed THEN 1 ELSE 0
    /\ \A k \in 1 .. Len(rows) :
           /\ rows[k] \in EventIds
           /\ ~events[rows[k]].processed
           /\ rows[k] > watermark
    /\ \A i \in marked :
           /\ i \in EventIds
           /\ ~events[i].processed
           /\ i > watermark

\* C3 witness: a cycle has selected its rows while an event beyond the
\* watermark it read is already processed.
C3_Witness ==
    /\ ppc = "rows"
    /\ \E i \in 1 .. Len(snapEvents) : snapEvents[i].processed /\ i > lastID

\* C4: a cycle in which a step failed leaves the watermark and every event's
\* processed flag as they were before the cycle.
C4_FailedCycleChangesNothing ==
    [][(ppc = "commit" /\ stepFailed) =>
          /\ watermark' = watermark
          /\ \A i \in EventIds : events'[i].processed = events[i].processed]_vars

\* C5: in every committed state the watermark is >= the id of every event with
\* processed = TRUE.
C5_WatermarkCoversProcessed ==
    \A i \in EventIds : events[i].processed => i <= watermark

\* C6: the committed watermark never decreases, and a cycle that marked no
\* event leaves it unchanged.
C6_MonotonicWatermark ==
    [][/\ watermark' >= watermark
       /\ (ppc = "commit" /\ marked = {}) => watermark' = watermark]_vars

\* C6 witness: a cycle that marked nothing is about to commit after the
\* watermark has advanced.
C6_Witness ==
    ppc = "commit" /\ marked = {} /\ watermark > 0

\* C7: an event whose order does not satisfy the filter (another product, or
\* no such order) is never marked processed, in the committed state or in the
\* poller's open transaction.
C7_FilterCorrectness ==
    /\ \A i \in EventIds : events[i].processed => RefersToNinja(i)
    /\ \A i \in marked : i \in EventIds /\ RefersToNinja(i)

\* C7 witness: the watermark has advanced past a non-matching, unprocessed
\* event because a matching event with a higher id was processed.
C7_Witness ==
    \E i, j \in EventIds :
        /\ i < j
        /\ ~RefersToNinja(i)
        /\ ~events[i].processed
        /\ events[j].processed
        /\ watermark >= j

\* C8: events are created with processed = FALSE, are never deleted nor
\* re-pointed, and a processed flag that is TRUE stays TRUE.
C8_EventStateMachine ==
    [][/\ Len(events') >= Len(events)
       /\ \A i \in EventIds :
              /\ events'[i].order_id = events[i].order_id
              /\ events[i].processed => events'[i].processed
       /\ \A i \in (Len(events) + 1) .. Len(events') :
              ~events'[i].processed]_vars

\* C8 witness: an event is processed and a later event is still pending.
C8_Witness ==
    \E i, j \in EventIds :
        i < j /\ events[i].processed /\ ~events[j].processed

\* C9: when the /orders/priority handler returns, either the order's priority
\* is 'high' and exactly one new event row for that order is committed, or
\* neither the orders nor the events have changed.
C9_EscalateAllOrNothing ==
    [][\A h \in Handlers :
          (hpc[h] # "idle" /\ hpc'[h] = "idle") =>
              \/ /\ harg[h] \in 1 .. Len(orders')
                 /\ orders'[harg[h]].priority = "high"
                 /\ events' = Append(events, [order_id |-> harg[h],
                                              processed |-> FALSE])
              \/ /\ orders' = orders
                 /\ events' = events]_vars

\* C10: an escalation of an order id that does not exist answers with an error
\* and commits no event row, so every committed event refers to an existing
\* order.
C10_UnknownOrderRejected ==
    /\ [](\A i \in EventIds : events[i].order_id \in 1 .. Len(orders))
    /\ [][\A h \in Handlers :
             (/\ hpc[h] # "idle"
              /\ hpc'[h] = "idle"
              /\ harg[h] \notin 1 .. Len(orders)) =>
                 (hres'[h] = "error" /\ events' = events)]_vars

\* The poller's step is a tx.Commit() that succeeds / that fails.
CommitSucceeds == ppc = "commit" /\ ppc' = "begin" /\ failures' = failures
CommitFails == ppc = "commit" /\ ppc' = "begin" /\ failures' < failures

\* C11: a cycle that marked event E and fails at Commit leaves E unprocessed
\* and the watermark unchanged, and the next cycle that completes with no
\* failed step leaves E processed and the watermark at E's id or beyond.
C11_CommitFailureRecovery ==
    [][/\ CommitFails =>
              /\ watermark' = watermark
              /\ \A e \in marked : ~events'[e].processed
       /\ (CommitSucceeds /\ ~stepFailed) =>
              \A e \in retry : events'[e].processed /\ watermark' >= e]_vars

\* C12: every row the poller selects or marks is a committed event, and the
\* order it refers to has priority 'high' at that moment.
C12_NoHalfWrittenEvent ==
    \A i \in {rows[k] : k \in 1 .. Len(rows)} \cup marked :
        /\ i \in EventIds
        /\ events[i].order_id \in 1 .. Len(orders)
        /\ orders[events[i].order_id].priority = "high"

\* C13: every committed escalation adds exactly one event row for its order,
\* also when the order is already 'high'; the row's id is larger than the id
\* of every row committed before, and so than every id the poller has read.
C13_OneEventPerEscalation ==
    [][/\ \A h \in Handlers :
              (hpc[h] = "commit" /\ hres'[h] = "ok") =>
                  /\ Len(events') = Len(events) + 1
                  /\ events'[Len(events')].order_id = harg[h]
       /\ \A i \in EventIds :
              i <= Len(events') /\ events'[i].order_id = events[i].order_id
       /\ \A j \in (Len(events) + 1) .. Len(events') :
              /\ j > watermark
              /\ j > lastID
              /\ j > maxID
              /\ \A k \in 1 .. Len(rows) : j > rows[k]]_vars

\* C13 witness: two committed events of the same existing order.
C13_Witness ==
    \E i, j \in EventIds :
        /\ i < j
        /\ events[i].order_id = events[j].order_id
        /\ events[i].order_id \in 1 .. Len(orders)

\* C14: a step of the ingress handlers leaves the watermark and the processed
\* flag of every existing event unchanged; a step of the poller leaves the
\* orders unchanged and neither inserts nor deletes events.
C14_SingleWriterFrames ==
    [][/\ (handlerVars' # handlerVars \/ orders' # orders) =>
              /\ watermark' = watermark
              /\ \A i \in EventIds :
                     /\ i <= Len(events')
                     /\ events'[i].processed = events[i].processed
       /\ (ppc' # ppc \/ rows' # rows) =>
              /\ orders' = orders
              /\ Len(events') = Len(events)
              /\ \A i \in EventIds :
                     events'[i].order_id = events[i].order_id]_vars

\* C14 witness: an escalation is about to commit while an event is processed
\* and the watermark has advanced, and the poller is inside a cycle.
C14_Witness ==
    /\ \E h \in Handlers : hpc[h] = "commit"
    /\ \E i \in EventIds : events[i].processed
    /\ watermark > 0
    /\ ppc = "query"

\* Events whose processed flag the step changes.
FlagsChanged == {i \in EventIds : events'[i].processed # events[i].processed}

\* C15: a crash at any point of a poller cycle, and the initDB of the restart,
\* leave the durable state as last committed: the watermark is not reset and
\* no processed flag is cleared; and the only durable change a cycle makes is
\* the whole of its transaction (every flag it set, with the watermark it
\* wrote) at once.
C15_CrashRestartTolerance ==
    [][/\ (ppc' = "down" \/ ppc = "down") =>
              /\ watermark' = watermark
              /\ events' = events
              /\ orders' = orders
       /\ Len(events') >= Len(events)
       /\ FlagsChanged \in {{}, marked}
       /\ watermark' # watermark =>
              /\ FlagsChanged = marked
              /\ watermark' = wmNew]_vars

\* C15 witness: the process is down after a crash, the watermark has advanced
\* and a matching event beyond it is still pending.
C15_Witness ==
    /\ ppc = "down"
    /\ watermark > 0
    /\ \E i \in EventIds :
           i > watermark /\ RefersToNinja(i) /\ ~events[i].processed

\* C16: once a shutdown is requested the poller begins no new cycle, and it
\* eventually stops with no transaction left open.
C16_CooperativeShutdown ==
    /\ [][shutdown => ~(ppc = "begin" /\ ppc' = "readWM")]_vars
    /\ shutdown ~> (ppc = "stopped" /\ leakedTxs = 0)

\* The events that, in the snapshot the cycle reads, have an id beyond the
\* watermark read, are unprocessed and refer to a ninja order.
CycleSet ==
    {i \in 1 .. Len(snapEvents) :
        /\ i > lastID
        /\ ~snapEvents[i].processed
        /\ snapEvents[i].order_id \in 1 .. Len(snapOrders)
        /\ snapOrders[snapEvents[i].order_id].product_name = "ninja"}

\* C17: a cycle that read watermark W and completes with no failed step has
\* marked exactly the events S that were beyond W, unprocessed and matching,
\* in ascending id order; it commits exactly these flags and leaves the
\* watermark at max(S), or at W when S is empty.
C17_CyclePostcondition ==
    /\ [](ppc = "rows" =>
            /\ \A k \in 1 .. Len(rows) - 1 : rows[k] < rows[k + 1]
            /\ \A m \in marked \cup skipped : m < rows[1])
    /\ [][(CommitSucceeds /\ ~stepFailed) =>
            /\ lastID = watermark
            /\ marked = CycleSet
            /\ \A i \in EventIds :
                   events'[i].processed = (events[i].processed \/ i \in CycleSet)
            /\ watermark' = IF CycleSet = {} THEN lastID
                            ELSE CHOOSE m \in CycleSet :
                                     \A x \in CycleSet : x <= m]_vars

\* C17 witness: a cycle with no failed step is about to commit two events.
C17_Witness ==
    /\ ppc = "commit"
    /\ ~stepFailed
    /\ Cardinality(marked) >= 2
    /\ wmNew = 2

\* C18: a row skipped after a failed Scan or UPDATE is still unprocessed after
\* the cycle and the committed watermark is below its id, whatever happened to
\* the later rows of the cycle.
C18_SkippedRowRetried ==
    [][(ppc = "commit" /\ ppc' = "begin") =>
          \A e \in skipped : ~events'[e].processed /\ watermark' < e]_vars

\* Poller transactions open: the ones left behind, and the current cycle's.
OpenPollerTxs ==
    leakedTxs +
        (IF ppc \in {"readWM", "query", "rows", "updateWM", "commit"}
         THEN 1 ELSE 0)

\* C19: every cycle's transaction is committed or rolled back before the next
\* cycle begins, so at most one poller transaction is open at any time.
C19_NoTransactionOutlivesCycle ==
    OpenPollerTxs <= 1

\* C20: the watermark is 0 or the id of an existing event that is processed
\* and whose order is a ninja order.
C20_WatermarkWellFormed ==
    \/ watermark = 0
    \/ /\ watermark \in EventIds
       /\ events[watermark].processed
       /\ RefersToNinja(watermark)

\* C20 witness: the watermark has advanced to the id of the last event.
C20_Witness ==
    watermark > 0 /\ watermark = Len(events) /\ ppc = "begin"

====
